---- MODULE Spec2Model ----
(***************************************************************************)
(* Photonic-circuit structures (src/src/structures.py) and their callers   *)
(* (src/app.py, src/pages/Phase.py), as a state machine.                    *)
(*                                                                         *)
(* Numbers.  A complex number is <<re, im, den>>, the exact Gaussian       *)
(* rational (re + i*im)/den in lowest terms with den > 0; den = 0 is       *)
(* numpy's nan.  The parameters are drawn from values whose square roots   *)
(* and exponentials are rational, so every coefficient is exact.           *)
(*                                                                         *)
(* Sequences are 1-based: Python's pins[k] is pins[k + 1] here.            *)
(***************************************************************************)
EXTENDS Integers, Sequences, FiniteSets, TLC

VARIABLES
    nextId,      \* Pin.id_iterator: the identity the next Pin() receives
    numPins,     \* Pin objects created so far (an object's address)
    fresh,       \* Pin.reset_id_iterator() was called since the last build
    builds,      \* the structures built so far, in construction order
    afterReset,  \* per build: it was built right after a reset
    observed     \* per build: the last read of field_equations and fields

vars == <<nextId, numPins, fresh, builds, afterReset, observed>>

\* ---------------------------------------------------------------- bounds

\* Structures a run builds at top level.
MaxBuilds == 2

\* Sources a run appends, over all composites.
MaxSources == 2

\* ------------------------------------------------------- complex numbers

Abs(n) == IF n < 0 THEN -n ELSE n

RECURSIVE Gcd(_, _)
Gcd(a, b) == IF b = 0 THEN a ELSE Gcd(b, a % b)

NaN == <<0, 0, 0>>

CNorm(re, im, den) ==
    IF den = 0 THEN NaN
    ELSE LET g == Gcd(Gcd(Abs(re), Abs(im)), Abs(den))
             s == IF den < 0 THEN -1 ELSE 1
         IN  <<(s * re) \div g, (s * im) \div g, (s * den) \div g>>

CZero == <<0, 0, 1>>
COne == <<1, 0, 1>>
CI == <<0, 1, 1>>

CReal(num, den) == CNorm(num, 0, den)
CNeg(a) == <<-a[1], -a[2], a[3]>>
CConj(a) == <<a[1], -a[2], a[3]>>
CAdd(a, b) == CNorm(a[1] * b[3] + b[1] * a[3], a[2] * b[3] + b[2] * a[3], a[3] * b[3])
CSub(a, b) == CAdd(a, CNeg(b))
CMul(a, b) == CNorm(a[1] * b[1] - a[2] * b[2], a[1] * b[2] + a[2] * b[1], a[3] * b[3])
CDiv(a, b) ==
    CNorm((a[1] * b[1] + a[2] * b[2]) * b[3], (a[2] * b[1] - a[1] * b[2]) * b[3],
          a[3] * (b[1] * b[1] + b[2] * b[2]))

IsNaN(a) == a[3] = 0
IsZero(a) == a = CZero

\* np.power(np.abs(z), 2)
AbsSquared(a) == CNorm(a[1] * a[1] + a[2] * a[2], 0, a[3] * a[3])

RECURSIVE CPow(_, _)
CPow(a, n) == IF n = 0 THEN COne ELSE CMul(a, CPow(a, n - 1))

\* The integer square root of a perfect square.
ISqrt(n) == CHOOSE r \in 0..n : r * r = n

\* np.sqrt of a real number: nan below zero.
Sqrt(a) == IF IsNaN(a) \/ a[1] < 0 THEN NaN ELSE CReal(ISqrt(a[1]), ISqrt(a[3]))

\* np.exp(1j * phase), the phase in quarter turns (units of pi/2).
ExpI(q) ==
    CASE q % 4 = 0 -> COne
      [] q % 4 = 1 -> CI
      [] q % 4 = 2 -> CNeg(COne)
      [] OTHER -> CNeg(CI)

\* ------------------------------------------------------------ structures

\* The sweep (angular_frequencies) with the propagation parameters, as the
\* factor loss_amplitude * exp(1j * wavevector * L) of each frequency sample
\* for the unit length L = pi * (unit radius): lossy off resonance, lossless
\* on resonance.
Sweep == << <<0, 1, 2>>, <<1, 0, 1>> >>

Samples == DOMAIN Sweep

\* Radii, in unit radii.
Radii == {1}

\* Cross-coupling coefficients a caller passes: 0 and 3/5 and, outside
\* [0, 1], -3/5 and 2.
Coefficients == {CReal(0, 1), CReal(3, 5), CReal(-3, 5), CReal(2, 1)}

\* The coefficient and the amplitudes of a session's builds: the coupling of
\* the reference circuit, a unit input on pins[0], no input elsewhere.
ReferenceCoefficient == CReal(3, 5)
PortAmplitude(k) == IF k = 0 THEN COne ELSE CZero

\* Source amplitudes a caller passes.
Amplitudes == {CZero, COne}

\* self_coupling_phase = 0 and cross_coupling_phase = np.pi / 2, in quarter
\* turns.
DefaultSelfCouplingPhase == 0
DefaultCrossCouplingPhase == 1

Range(seq) == {seq[i] : i \in DOMAIN seq}

NumPins(type) ==
    CASE type = "Waveguide" -> 2
      [] type = "Source" -> 1
      [] type = "DirectionalCoupler" -> 4
      [] type = "RingResonator" -> 4
      [] type = "AddDropFilter" -> 8

NumEquations(type) ==
    CASE type = "Waveguide" -> 1
      [] type = "Source" -> 1
      [] type = "DirectionalCoupler" -> 2
      [] type = "RingResonator" -> 3
      [] type = "AddDropFilter" -> 6

IsComposite(s) == s.type \in {"RingResonator", "AddDropFilter"}

\* Waveguide.__init__; length in units of pi * (unit radius).
Waveguide(length, pins) ==
    [type |-> "Waveguide", pins |-> pins, length |-> length]

\* Source.__init__
Source(amplitude, pins) ==
    [type |-> "Source", pins |-> pins, amplitude |-> amplitude]

\* DirectionalCoupler.__init__, with the default phases: no check of the
\* coefficient, and np.sqrt of a negative number is nan.
DirectionalCoupler(cross_coupling_coefficient, pins) ==
    [type |-> "DirectionalCoupler", pins |-> pins,
     kappa |-> CMul(cross_coupling_coefficient, ExpI(DefaultCrossCouplingPhase)),
     sigma |-> CMul(Sqrt(CSub(COne, CMul(cross_coupling_coefficient,
                                          cross_coupling_coefficient))),
                    ExpI(DefaultSelfCouplingPhase))]

\* RingResonator.__init__ with the coupler left to allocate pins of its own.
RingStructuresOwnPins(radius, cross_coupling_coefficient, pins) ==
    << DirectionalCoupler(cross_coupling_coefficient,
                          [i \in 1..4 |-> [obj |-> pins[i].obj + 4, id |-> pins[i].id + 4]]),
       Waveguide(2 * radius, <<pins[4], pins[2]>>) >>

\* The children RingResonator.__init__ builds on its own pins.
RingStructures(radius, cross_coupling_coefficient, pins) ==
    << DirectionalCoupler(cross_coupling_coefficient, pins),
       Waveguide(2 * radius, <<pins[4], pins[2]>>) >>

RingResonator(radius, cross_coupling_coefficient, pins) ==
    [type |-> "RingResonator", pins |-> pins, radius |-> radius,
     cross_coupling_coefficient |-> cross_coupling_coefficient,
     structures |-> RingStructures(radius, cross_coupling_coefficient, pins)]

\* AddDropFilter.__init__ without the waveguide that closes the ring.
AddDropStructuresOpen(radius, input_coefficient, auxiliary_coefficient, pins) ==
    << DirectionalCoupler(input_coefficient, SubSeq(pins, 1, 4)),
       DirectionalCoupler(auxiliary_coefficient, SubSeq(pins, 5, Len(pins))),
       Waveguide(radius, <<pins[4], pins[6]>>) >>

\* AddDropFilter.__init__ with the first waveguide ending one pin early, on
\* pins[4].
AddDropStructuresMiswired(radius, input_coefficient, auxiliary_coefficient, pins) ==
    << DirectionalCoupler(input_coefficient, SubSeq(pins, 1, 4)),
       DirectionalCoupler(auxiliary_coefficient, SubSeq(pins, 5, Len(pins))),
       Waveguide(radius, <<pins[4], pins[5]>>),
       Waveguide(radius, <<pins[8], pins[2]>>) >>

\* The children AddDropFilter.__init__ builds on its own pins.
AddDropStructures(radius, input_coefficient, auxiliary_coefficient, pins) ==
    << DirectionalCoupler(input_coefficient, SubSeq(pins, 1, 4)),
       DirectionalCoupler(auxiliary_coefficient, SubSeq(pins, 5, Len(pins))),
       Waveguide(radius, <<pins[4], pins[6]>>),
       Waveguide(radius, <<pins[8], pins[2]>>) >>

AddDropFilter(radius, input_coefficient, auxiliary_coefficient, pins) ==
    [type |-> "AddDropFilter", pins |-> pins, radius |-> radius,
     input_cross_coupling_coefficient |-> input_coefficient,
     auxiliary_cross_coupling_coefficient |-> auxiliary_coefficient,
     structures |-> AddDropStructures(radius, input_coefficient,
                                      auxiliary_coefficient, pins)]

\* -------------------------------------------------------- field equations
\* An equation is the sequence of its (pin, coefficient) terms.

Term(pin, coeff) == [pin |-> pin, coeff |-> coeff]

\* Waveguide.field_equations at frequency sample f.
WaveguideEquations(s, f) ==
    << << Term(s.pins[1], CNeg(CPow(Sweep[f], s.length))),
          Term(s.pins[2], COne) >> >>

\* Source.field_equations
SourceEquations(s) == << << Term(s.pins[1], COne) >> >>

\* DirectionalCoupler.field_equations with the signs of the class docstring:
\* +1 on the two output pins.
CouplerEquationsDocstring(s) ==
    << << Term(s.pins[1], s.sigma),
          Term(s.pins[2], s.kappa),
          Term(s.pins[3], COne) >>,
       << Term(s.pins[1], CNeg(CConj(s.kappa))),
          Term(s.pins[2], CConj(s.sigma)),
          Term(s.pins[4], COne) >> >>

\* DirectionalCoupler.field_equations with the second equation dropped.
CouplerEquationsFirstOnly(s) ==
    << << Term(s.pins[1], s.sigma),
          Term(s.pins[2], s.kappa),
          Term(s.pins[3], CNeg(COne)) >> >>

\* DirectionalCoupler.field_equations
CouplerEquations(s) ==
    << << Term(s.pins[1], s.sigma),
          Term(s.pins[2], s.kappa),
          Term(s.pins[3], CNeg(COne)) >>,
       << Term(s.pins[1], CNeg(CConj(s.kappa))),
          Term(s.pins[2], CConj(s.sigma)),
          Term(s.pins[4], CNeg(COne)) >> >>

\* Source.ordinate_vector with the amplitude left at its default.
SourceOrdinateUnit(s) == << COne >>

\* Source.ordinate_vector
SourceOrdinate(s) == << s.amplitude >>

\* The ordinate vector of the other leaves: zero for each equation.
ZeroOrdinate(s) == [i \in 1..NumEquations(s.type) |-> CZero]

RECURSIVE FieldEquations(_, _), ChildEquations(_, _, _)

\* field_equations: a leaf's own, a composite's children's, concatenated in
\* child order and flattened.
FieldEquations(s, f) ==
    CASE s.type = "Waveguide" -> WaveguideEquations(s, f)
      [] s.type = "Source" -> SourceEquations(s)
      [] s.type = "DirectionalCoupler" -> CouplerEquations(s)
      [] OTHER -> ChildEquations(s.structures, f, 1)

ChildEquations(ss, f, i) ==
    IF i > Len(ss) THEN <<>>
    ELSE FieldEquations(ss[i], f) \o ChildEquations(ss, f, i + 1)

RECURSIVE OrdinateVector(_), ChildOrdinates(_, _)

\* ordinate_vector, aligned with field_equations.
OrdinateVector(s) ==
    CASE s.type = "Source" -> SourceOrdinate(s)
      [] IsComposite(s) -> ChildOrdinates(s.structures, 1)
      [] OTHER -> ZeroOrdinate(s)

ChildOrdinates(ss, i) ==
    IF i > Len(ss) THEN <<>>
    ELSE OrdinateVector(ss[i]) \o ChildOrdinates(ss, i + 1)

RECURSIVE AllPins(_)

\* The distinct pins appearing anywhere in a structure.
AllPins(s) ==
    Range(s.pins) \cup
    (IF IsComposite(s)
     THEN UNION {AllPins(s.structures[i]) : i \in DOMAIN s.structures}
     ELSE {})

\* ------------------------------------------------------------- the solve

\* The column of a pin in the coefficient matrix and in the solved field
\* array: its identity.
Column(pin) == pin.id + 1

\* The function f with every value evaluated once (a function expression is
\* otherwise evaluated anew at each application).
Force(f) == f @@ <<>>

\* One row of the coefficient matrix, with the equation's ordinate as the
\* last entry.
AugmentedRow(eq, ordinate, n) == Force(
    [c \in 1..(n + 1) |->
        IF c = n + 1 THEN ordinate
        ELSE IF \E i \in DOMAIN eq : Column(eq[i].pin) = c
             THEN eq[CHOOSE i \in DOMAIN eq : Column(eq[i].pin) = c].coeff
             ELSE CZero])

\* coefficient_matrix and ordinate_vector at frequency sample f.
AugmentedMatrix(s, f, n) ==
    LET eqs == FieldEquations(s, f)
        ord == OrdinateVector(s)
    IN  Force([r \in 1..n |-> AugmentedRow(eqs[r], ord[r], n)])

\* The row less the multiple of the pivot row that clears column c.
ClearColumn(row, prow, c) ==
    IF IsZero(row[c]) THEN row
    ELSE Force([j \in DOMAIN row |-> CSub(row[j], CMul(row[c], prow[j]))])

RECURSIVE Eliminate(_, _, _)

\* Gauss-Jordan elimination from column c on; <<>> for a singular matrix.
Eliminate(m, c, n) ==
    IF c > n THEN m
    ELSE LET rows == {r \in c..n : ~IsZero(m[r][c])}
         IN  IF rows = {} THEN <<>>
             ELSE LET p == CHOOSE r \in rows : \A q \in rows : r <= q
                      prow == Force([j \in 1..(n + 1) |-> CDiv(m[p][j], m[p][c])])
                      next == Force([r \in 1..n |->
                                 IF r = c THEN prow
                                 ELSE ClearColumn(IF r = p THEN m[c] ELSE m[r], prow, c)])
                  IN  Eliminate(next, c + 1, n)

\* np.linalg.solve at one frequency sample: the field of each column, or
\* <<>> for a singular matrix.
Solve(s, f, n) ==
    LET m == Eliminate(AugmentedMatrix(s, f, n), 1, n)
    IN  IF m = <<>> THEN <<>> ELSE [c \in 1..n |-> m[c][n + 1]]

Failure(error) == [status |-> error, array |-> <<>>]

\* fields without the check of the equation count against the pin count:
\* the solve refuses the matrix that is not square.
FieldsUnvalidated(s) ==
    LET n == Cardinality(AllPins(s))
    IN  IF Len(FieldEquations(s, 1)) # n THEN Failure("NumericalSolveError")
        ELSE IF \E p \in AllPins(s) : Column(p) > n THEN Failure("IndexError")
        ELSE LET solved == [f \in Samples |-> Solve(s, f, n)]
             IN  IF \E f \in Samples : solved[f] = <<>>
                 THEN Failure("NumericalSolveError")
                 ELSE [status |-> "solved", array |-> solved]

\* fields: the solved array indexed [frequency sample][column], or the error
\* raised instead.
Fields(s) ==
    LET n == Cardinality(AllPins(s))
    IN  IF Len(FieldEquations(s, 1)) # n THEN Failure("StructuralValidationError")
        ELSE IF \E p \in AllPins(s) : Column(p) > n THEN Failure("IndexError")
        ELSE LET solved == [f \in Samples |-> Solve(s, f, n)]
             IN  IF \E f \in Samples : solved[f] = <<>>
                 THEN Failure("NumericalSolveError")
                 ELSE [status |-> "solved", array |-> solved]

\* AddDropFilter.field_enhancement and AddDropFilter.transmission read these
\* columns of the solved array.
FieldEnhancementColumn == 3
TransmissionColumn == 6

\* The through pin of a ring: pins[2], the output of the coupler's first
\* equation.
RingThroughColumn == 2

\* The column interactive_plot reads of the reference and of the new build:
\* pin = 1.
AppPin == 1

\* AddDropFilter.transmission reading the column after the one it reads.
TransmissionNextColumn(fields) ==
    [f \in DOMAIN fields |-> AbsSquared(fields[f][TransmissionColumn + 2])]

\* AddDropFilter.transmission: np.power(np.abs(fields[:, 6]), 2)
Transmission(fields) ==
    [f \in DOMAIN fields |-> AbsSquared(fields[f][TransmissionColumn + 1])]

\* ------------------------------------------------------- the operations

\* Pin() called n times: fresh objects, consecutive identities.
NewPins(n) ==
    [i \in 1..n |-> [obj |-> numPins + i - 1, id |-> nextId + i - 1]]

Unread ==
    [read |-> FALSE, equations |-> <<>>, ordinate |-> <<>>, fields |-> Failure("unread")]

Init ==
    /\ nextId = 0
    /\ numPins = 0
    /\ fresh = FALSE
    /\ builds = <<>>
    /\ afterReset = <<>>
    /\ observed = <<>>

\* Pin.reset_id_iterator()
ResetIdIterator ==
    /\ nextId' = 0
    /\ fresh' = TRUE
    /\ UNCHANGED <<numPins, builds, afterReset, observed>>

\* A structure constructed with pins = None: it allocates its own pins, its
\* children are built on them.
Construct(type, s) ==
    /\ Len(builds) < MaxBuilds
    /\ builds' = Append(builds, s)
    /\ afterReset' = Append(afterReset, fresh)
    /\ observed' = Append(observed, Unread)
    /\ nextId' = nextId + NumPins(type)
    /\ numPins' = numPins + NumPins(type)
    /\ fresh' = FALSE

BuildCoupler(k) ==
    Construct("DirectionalCoupler",
              DirectionalCoupler(k, NewPins(NumPins("DirectionalCoupler"))))

BuildRing(radius, k) ==
    Construct("RingResonator",
              RingResonator(radius, k, NewPins(NumPins("RingResonator"))))

BuildAddDrop(radius, kin, kaux) ==
    Construct("AddDropFilter",
              AddDropFilter(radius, kin, kaux, NewPins(NumPins("AddDropFilter"))))

\* The pins[k] the callers append a Source on.
SourcePorts(type) ==
    CASE type = "RingResonator" -> {0}
      [] type = "AddDropFilter" -> {0, 4}
      [] OTHER -> {}

SourcesOf(s) ==
    IF IsComposite(s)
    THEN {i \in DOMAIN s.structures : s.structures[i].type = "Source"}
    ELSE {}

RECURSIVE SourceCount(_)
SourceCount(i) ==
    IF i = 0 THEN 0 ELSE Cardinality(SourcesOf(builds[i])) + SourceCount(i - 1)

\* b.structures.append(Source(amplitude, pins=b.pins)): the whole pin list
\* in place of the one pin.
AppendSourceAllPins(b, k, amplitude) ==
    /\ b \in DOMAIN builds
    /\ k \in SourcePorts(builds[b].type)
    /\ SourceCount(Len(builds)) < MaxSources
    /\ builds' = [builds EXCEPT
                    ![b].structures = Append(@, Source(amplitude, builds[b].pins))]
    /\ observed' = [observed EXCEPT ![b] = Unread]
    /\ UNCHANGED <<nextId, numPins, fresh, afterReset>>

\* b.structures.append(Source(amplitude)): the Source left to allocate a pin
\* of its own.
AppendSourceOwnPin(b, k, amplitude) ==
    /\ b \in DOMAIN builds
    /\ k \in SourcePorts(builds[b].type)
    /\ SourceCount(Len(builds)) < MaxSources
    /\ builds' = [builds EXCEPT
                    ![b].structures = Append(@, Source(amplitude, NewPins(1)))]
    /\ observed' = [observed EXCEPT ![b] = Unread]
    /\ nextId' = nextId + 1
    /\ numPins' = numPins + 1
    /\ UNCHANGED <<fresh, afterReset>>

\* b.structures.append(Source(amplitude, pins=[b.pins[k]]))
AppendSource(b, k, amplitude) ==
    /\ b \in DOMAIN builds
    /\ k \in SourcePorts(builds[b].type)
    /\ SourceCount(Len(builds)) < MaxSources
    /\ builds' = [builds EXCEPT
                    ![b].structures = Append(@, Source(amplitude, <<builds[b].pins[k + 1]>>))]
    /\ observed' = [observed EXCEPT ![b] = Unread]
    /\ UNCHANGED <<nextId, numPins, fresh, afterReset>>

\* What reading b.field_equations, b.ordinate_vector and b.fields returns.
Reading(s) ==
    [read |-> TRUE,
     equations |-> [f \in Samples |-> FieldEquations(s, f)],
     ordinate |-> OrdinateVector(s),
     fields |-> Fields(s)]

\* A read that keeps the equations of the read before it and extends them.
ReadAccumulating(b) ==
    /\ b \in DOMAIN builds
    /\ observed' = [observed EXCEPT ![b] =
                      [Reading(builds[b]) EXCEPT
                         !.equations = [f \in Samples |->
                                          (IF observed[b].read THEN observed[b].equations[f]
                                           ELSE <<>>) \o @[f]]]]
    /\ UNCHANGED <<nextId, numPins, fresh, builds, afterReset>>

\* b.field_equations, b.ordinate_vector and b.fields are read.
Read(b) ==
    /\ b \in DOMAIN builds
    /\ observed' = [observed EXCEPT ![b] = Reading(builds[b])]
    /\ UNCHANGED <<nextId, numPins, fresh, builds, afterReset>>

\* One circuit, with every parameter a caller may pass.
Next ==
    \/ ResetIdIterator
    \/ \E k \in Coefficients : builds = <<>> /\ BuildCoupler(k)
    \/ \E r \in Radii, k \in Coefficients : builds = <<>> /\ BuildRing(r, k)
    \/ \E r \in Radii, kin \in Coefficients, kaux \in Coefficients :
            builds = <<>> /\ BuildAddDrop(r, kin, kaux)
    \/ \E b \in 1..MaxBuilds, k \in 0..7, a \in Amplitudes : AppendSource(b, k, a)
    \/ \E b \in 1..MaxBuilds : Read(b)

Spec == Init /\ [][Next]_vars

\* A session: up to MaxBuilds circuits built one after the other with the
\* reference parameters, with or without a reset between them.
NextSession ==
    \/ ResetIdIterator
    \/ BuildCoupler(ReferenceCoefficient)
    \/ \E r \in Radii : BuildRing(r, ReferenceCoefficient)
    \/ \E r \in Radii : BuildAddDrop(r, ReferenceCoefficient, ReferenceCoefficient)
    \/ \E b \in 1..MaxBuilds, k \in 0..7 : AppendSource(b, k, PortAmplitude(k))
    \/ \E b \in 1..MaxBuilds : Read(b)

SpecSession == Init /\ [][NextSession]_vars

\* ------------------------------------------------------------ the claims

\* The pin identities and the pin objects of build b.
Ids(b) == {p.id : p \in AllPins(builds[b])}
Objects(b) == {p.obj : p \in AllPins(builds[b])}

StartsFromZero(b) == Ids(b) = 0..(NumPins(builds[b].type) - 1)

\* C1 as stated: of two builds one after the other, with a reset between
\* them each build's identities start from zero and the two identity ranges
\* do not overlap; without one the second build's identities are greater
\* than every identity of the first.
C1_IsolationAsStated ==
    \A j \in DOMAIN builds : j > 1 =>
        /\ afterReset[j] =>
              /\ 0 \in Ids(j - 1) /\ \A a \in Ids(j - 1) : a >= 0
              /\ 0 \in Ids(j) /\ \A c \in Ids(j) : c >= 0
              /\ Ids(j - 1) \cap Ids(j) = {}
        /\ ~afterReset[j] => \A a \in Ids(j - 1), c \in Ids(j) : c > a

\* C1, amended: a build made right after a reset (or first of all) has the
\* identities 0..num_pins-1, so two such builds share identities (both hold
\* 0) and only their Pin objects are disjoint; a build made without a reset
\* has identities greater than every identity of the build before it.
C1_PinIdentityIsolation ==
    \A j \in DOMAIN builds :
        /\ (j = 1 \/ afterReset[j]) => StartsFromZero(j)
        /\ j > 1 =>
              /\ Objects(j - 1) \cap Objects(j) = {}
              /\ afterReset[j] /\ StartsFromZero(j - 1) => 0 \in Ids(j - 1) \cap Ids(j)
              /\ ~afterReset[j] => \A a \in Ids(j - 1), c \in Ids(j) : c > a

\* Two circuits built with a reset between them.
C1_Witness ==
    /\ Len(builds) = 2
    /\ afterReset[2]
    /\ builds[1].type = "AddDropFilter"
    /\ builds[2].type = "RingResonator"

EquationCount(s) == Len(FieldEquations(s, 1))
PinCount(s) == Cardinality(AllPins(s))

\* The pins of s that its Sources sit on.
SourcePinsOf(s) == {s.structures[i].pins[1] : i \in SourcesOf(s)}

\* s carries exactly n Sources, on exactly the pins[k] with k in ports.
SourcesOn(s, n, ports) ==
    /\ Cardinality(SourcesOf(s)) = n
    /\ SourcePinsOf(s) = {s.pins[k + 1] : k \in ports}

\* C2: when the fields of a structure are solved its flattened equations are
\* as many as its distinct pins; a RingResonator has 3 equations over 4 pins
\* and, with one Source on pins[0], 4 over 4; an AddDropFilter has 6 over 8
\* and, with Sources on pins[0] and pins[4], 8 over 8.
C2_SolvableCircuit ==
    \A b \in DOMAIN builds :
        LET s == builds[b] IN
        /\ observed[b].fields.status \in {"solved", "NumericalSolveError"}
              => EquationCount(s) = PinCount(s)
        /\ s.type = "RingResonator" /\ SourcesOf(s) = {}
              => EquationCount(s) = 3 /\ PinCount(s) = 4
        /\ s.type = "RingResonator" /\ SourcesOn(s, 1, {0})
              => EquationCount(s) = 4 /\ PinCount(s) = 4
        /\ s.type = "AddDropFilter" /\ SourcesOf(s) = {}
              => EquationCount(s) = 6 /\ PinCount(s) = 8
        /\ s.type = "AddDropFilter" /\ SourcesOn(s, 2, {0, 4})
              => EquationCount(s) = 8 /\ PinCount(s) = 8

\* An AddDropFilter with its two Sources, solved.
C2_Witness ==
    \E b \in DOMAIN builds :
        /\ builds[b].type = "AddDropFilter"
        /\ SourcesOn(builds[b], 2, {0, 4})
        /\ observed[b].fields.status = "solved"

Couplers ==
    {builds[b] : b \in {c \in DOMAIN builds : builds[c].type = "DirectionalCoupler"}}
    \cup UNION {{builds[b].structures[i] :
                    i \in {j \in DOMAIN builds[b].structures :
                             builds[b].structures[j].type = "DirectionalCoupler"}} :
                b \in {c \in DOMAIN builds : IsComposite(builds[c])}}

\* The cross-coupling coefficient a coupler was built with.
CrossCoupling(c) == CDiv(c.kappa, ExpI(DefaultCrossCouplingPhase))

InUnitInterval(x) == ~IsNaN(x) /\ x[2] = 0 /\ 0 <= x[1] /\ x[1] <= x[3]

\* C4: no DirectionalCoupler exists whose cross-coupling coefficient is
\* outside [0, 1]: the constructor rejects it.
C4_CoefficientInDomain ==
    \A c \in Couplers : InUnitInterval(CrossCoupling(c))

\* The equations the children before child i contribute.
RECURSIVE Offset(_, _)
Offset(s, i) ==
    IF i = 1 THEN 0 ELSE Offset(s, i - 1) + NumEquations(s.structures[i - 1].type)

\* C5: a leaf contributes exactly num_equations equations, a composite the
\* concatenation of its children's in child order; a RingResonator as built
\* contributes 3 and an AddDropFilter 6, their num_equations.
C5_EquationAggregation ==
    \A b \in DOMAIN builds : \A f \in Samples :
        LET s == builds[b]
            eqs == observed[b].equations[f]
        IN  observed[b].read =>
            IF IsComposite(s)
            THEN /\ \A i \in DOMAIN s.structures :
                       LET child == s.structures[i] IN
                       /\ Len(FieldEquations(child, f)) = NumEquations(child.type)
                       /\ Offset(s, i) + NumEquations(child.type) <= Len(eqs)
                       /\ SubSeq(eqs, Offset(s, i) + 1, Offset(s, i) + NumEquations(child.type))
                             = FieldEquations(child, f)
                 /\ Len(eqs) = Offset(s, Len(s.structures) + 1)
                 /\ SourcesOf(s) = {} => Len(eqs) = NumEquations(s.type)
            ELSE Len(eqs) = NumEquations(s.type)

\* The equations of an AddDropFilter with a Source were read.
C5_Witness ==
    \E b \in DOMAIN builds :
        /\ builds[b].type = "AddDropFilter"
        /\ Cardinality(SourcesOf(builds[b])) = 1
        /\ observed[b].read

\* Every structure's pin list has the length its type declares.
PinListsSized ==
    \A b \in DOMAIN builds :
        /\ Len(builds[b].pins) = NumPins(builds[b].type)
        /\ IsComposite(builds[b]) =>
              \A i \in DOMAIN builds[b].structures :
                  Len(builds[b].structures[i].pins) = NumPins(builds[b].structures[i].type)

\* A step leaves the pin list of every structure there is as it was.
PinListsKept ==
    \A b \in DOMAIN builds :
        /\ b \in DOMAIN builds'
        /\ builds'[b].pins = builds[b].pins
        /\ IsComposite(builds[b]) =>
              \A i \in DOMAIN builds[b].structures :
                  /\ i \in DOMAIN builds'[b].structures
                  /\ builds'[b].structures[i].pins = builds[b].structures[i].pins

\* C6: len(pins) == num_pins for every structure, leaf or composite, child
\* or appended Source, from its construction on, and no operation changes
\* the length or the contents of a pin list.
C6_PinListFixed == [][PinListsSized' /\ PinListsKept]_vars

\* A composite with an appended Source, read.
C6_Witness ==
    \E b \in DOMAIN builds :
        /\ builds[b].type = "AddDropFilter"
        /\ Cardinality(SourcesOf(builds[b])) = 2
        /\ observed[b].read

\* The child of s that contributes equation r.
Owner(s, r) ==
    s.structures[CHOOSE i \in DOMAIN s.structures :
                    /\ Offset(s, i) < r
                    /\ r <= Offset(s, i) + NumEquations(s.structures[i].type)]

MainRing(s) ==
    LET pins == SubSeq(s.pins, 1, 4)
        ring == RingResonator(s.radius, s.input_cross_coupling_coefficient, pins)
        OnInput(c) == c.type = "Source" /\ c.pins[1] = s.pins[1]
    IN  [ring EXCEPT !.structures = @ \o SelectSeq(s.structures, OnInput)]

AuxiliaryOff(s) ==
    s.type = "AddDropFilter" /\ s.auxiliary_cross_coupling_coefficient = CZero

\* The Sources of add_drop_filter_debug: a unit input on pins[0], none on
\* pins[4].
DebugSources(s) ==
    /\ SourcesOn(s, 2, {0, 4})
    /\ \A i \in SourcesOf(s) :
          s.structures[i].amplitude =
             (IF s.structures[i].pins[1] = s.pins[1] THEN COne ELSE CZero)

\* C9 as stated, for a filter with an input coefficient in [0, 1] and the
\* Sources of add_drop_filter_debug: with the auxiliary coefficient 0, what
\* the transmission property reads (column 6) is the transmission of the
\* bare main ring.
C9_OutputPinAsStated ==
    \A b \in DOMAIN builds :
        LET s == builds[b]
            ring == Fields(MainRing(s))
        IN  (AuxiliaryOff(s) /\ InUnitInterval(s.input_cross_coupling_coefficient)
                /\ DebugSources(s)
                /\ observed[b].fields.status = "solved" /\ ring.status = "solved") =>
            \A f \in Samples :
                Transmission(observed[b].fields.array)[f]
                    = AbsSquared(ring.array[f][RingThroughColumn + 1])

\* C9, amended: with the auxiliary coefficient 0 the second coupler's
\* equations are A4 - A6 = 0 and A5 - A7 = 0, the ring path (pins 5, 7)
\* uncoupled from the drop side (pins 4, 6); for an input coefficient of
\* magnitude at most 1 (sigma is a number) the filter with Sources on
\* pins[0] and pins[4] is solved exactly when the bare main ring is, pins
\* 0..3 then carry the bare ring's fields (pin 2 its transmission), and the
\* pin the transmission property reads, pin 6, carries the field put in at
\* pins[4].
C9_AuxiliaryDecoupled ==
    \A b \in DOMAIN builds :
        LET s == builds[b]
            got == observed[b].fields
            ring == Fields(MainRing(s))
        IN  (AuxiliaryOff(s) /\ observed[b].read) =>
            /\ \A f \in Samples :
                  SubSeq(observed[b].equations[f], 3, 4) =
                     << << Term(s.pins[5], COne), Term(s.pins[6], CZero),
                           Term(s.pins[7], CNeg(COne)) >>,
                        << Term(s.pins[5], CZero), Term(s.pins[6], COne),
                           Term(s.pins[8], CNeg(COne)) >> >>
            /\ (SourcesOn(s, 2, {0, 4}) /\ ~IsNaN(s.structures[1].sigma)) =>
                  /\ got.status = ring.status
                  /\ got.status = "solved" =>
                        \A f \in Samples :
                            /\ SubSeq(got.array[f], 1, 4) = ring.array[f]
                            /\ AbsSquared(got.array[f][RingThroughColumn + 1])
                                  = AbsSquared(ring.array[f][RingThroughColumn + 1])
                            /\ got.array[f][7] = got.array[f][5]
                            /\ got.array[f][8] = got.array[f][6]
                            /\ \E i \in SourcesOf(s) :
                                  /\ s.structures[i].pins[1] = s.pins[5]
                                  /\ got.array[f][TransmissionColumn + 1]
                                        = s.structures[i].amplitude

\* An AddDropFilter with the auxiliary coefficient 0 and a unit input on
\* pins[0], solved.
C9_Witness ==
    \E b \in DOMAIN builds :
        LET s == builds[b] IN
        /\ AuxiliaryOff(s)
        /\ s.input_cross_coupling_coefficient = CReal(3, 5)
        /\ DebugSources(s)
        /\ observed[b].fields.status = "solved"

\* The rows of the documented matrix for a coupler of cross-coupling
\* coefficient k on pins, with the coefficient out on the two output pins.
MatrixRows(k, pins, out) ==
    LET sigma == Sqrt(CSub(COne, CMul(k, k)))
        jkappa == CMul(CI, k)
    IN  << << Term(pins[1], sigma), Term(pins[2], jkappa), Term(pins[3], out) >>,
           << Term(pins[1], jkappa), Term(pins[2], sigma), Term(pins[4], out) >> >>

\* The coupler equations read from build b are the matrix rows with out on
\* the output pins.
CouplerRowsAre(b, out) ==
    LET s == builds[b] IN
    \A f \in Samples :
        LET eqs == observed[b].equations[f] IN
        CASE s.type = "DirectionalCoupler" ->
                eqs = MatrixRows(CrossCoupling(s), s.pins, out)
          [] s.type = "RingResonator" ->
                SubSeq(eqs, 1, 2) = MatrixRows(s.cross_coupling_coefficient, s.pins, out)
          [] s.type = "AddDropFilter" ->
                /\ SubSeq(eqs, 1, 2) =
                      MatrixRows(s.input_cross_coupling_coefficient, SubSeq(s.pins, 1, 4), out)
                /\ SubSeq(eqs, 3, 4) =
                      MatrixRows(s.auxiliary_cross_coupling_coefficient,
                                 SubSeq(s.pins, 5, 8), out)

EquationPins(s) ==
    UNION {{eq[i].pin : i \in DOMAIN eq} : eq \in Range(FieldEquations(s, 1))}

\* The Pin objects the builds so far account for: num_pins each.
RECURSIVE Allocated(_)
Allocated(i) ==
    IF i = 0 THEN 0 ELSE NumPins(builds[i].type) + Allocated(i - 1)

\* The waveguides among the children of s, as (from, to) positions in the
\* pin list of s.
WaveguideRuns(s) ==
    {<<a, c>> \in (0..7) \X (0..7) :
        /\ a + 1 \in DOMAIN s.pins /\ c + 1 \in DOMAIN s.pins
        /\ \E i \in DOMAIN s.structures :
              /\ s.structures[i].type = "Waveguide"
              /\ s.structures[i].pins = <<s.pins[a + 1], s.pins[c + 1]>>}

\* C11: a RingResonator or AddDropFilter built without supplied pins
\* allocates exactly num_pins pins (4, 8), consecutive identities, and its
\* children and the Sources appended later allocate none: every pin of a
\* child, and every pin the flattened equations refer to, is one of the
\* composite's own, and the pin counter stands right after the last build's
\* identities.  The ring's waveguide runs from pins[3] to pins[1], the
\* add-drop's from pins[3] to pins[5] and from pins[7] to pins[1].
C11_WiringByPinSharing ==
    /\ numPins = Allocated(Len(builds))
    /\ (builds # <<>> /\ ~fresh) =>
          \A c \in Ids(Len(builds)) : c < nextId /\ nextId - NumPins(builds[Len(builds)].type) <= c
    /\ \A b \in DOMAIN builds :
          LET s == builds[b] IN
          /\ Cardinality(Range(s.pins)) = NumPins(s.type)
          /\ Cardinality(Ids(b)) = NumPins(s.type)
          /\ Cardinality(Objects(b)) = NumPins(s.type)
          /\ \A i \in DOMAIN s.pins : s.pins[i].id = s.pins[1].id + i - 1
          /\ IsComposite(s) =>
                /\ \A i \in DOMAIN s.structures :
                      Range(s.structures[i].pins) \subseteq Range(s.pins)
                /\ AllPins(s) = Range(s.pins)
                /\ EquationPins(s) \subseteq Range(s.pins)
          /\ s.type = "RingResonator" => WaveguideRuns(s) = {<<3, 1>>}
          /\ s.type = "AddDropFilter" => WaveguideRuns(s) = {<<3, 5>>, <<7, 1>>}

\* A RingResonator built after an AddDropFilter, without a reset, with a
\* Source appended on each and both read.
C11_Witness ==
    /\ Len(builds) = 2
    /\ builds[1].type = "AddDropFilter"
    /\ builds[2].type = "RingResonator"
    /\ ~afterReset[2]
    /\ SourcesOf(builds[1]) # {}
    /\ SourcesOf(builds[2]) # {}
    /\ observed[1].read /\ observed[2].read

\* The pins allocated since the counter last stood at zero, when build j is
\* made: none for the first build and for a build made right after a reset.
RECURSIVE Shift(_)
Shift(j) ==
    IF j = 1 \/ afterReset[j] THEN 0
    ELSE Shift(j - 1) + NumPins(builds[j - 1].type)

\* Column k denotes pins[k] of build j, for every k.
ColumnsDenotePins(j) ==
    \A k \in 0..(NumPins(builds[j].type) - 1) : Column(builds[j].pins[k + 1]) = k + 1

\* C12 as stated: a build made right after a reset has pins[k] on column k;
\* a build not preceded by a reset has its identities shifted by the number
\* of pins already allocated, and column k does not denote its pins[k].
C12_ColumnsAsStated ==
    \A j \in DOMAIN builds :
        /\ afterReset[j] => ColumnsDenotePins(j)
        /\ ~afterReset[j] =>
              /\ \A k \in 0..(NumPins(builds[j].type) - 1) :
                    builds[j].pins[k + 1].id = k + Allocated(j - 1)
              /\ \A k \in 0..(NumPins(builds[j].type) - 1) :
                    Column(builds[j].pins[k + 1]) # k + 1

\* C12, amended: the identity of pins[k] is k plus the pins allocated since
\* the counter last stood at zero.  For the first build of a run and for a
\* build made right after a reset that is k itself: column AppPin is the
\* same pin position of every such build, and of a solved AddDropFilter
\* field_enhancement reads the field of pins[3] and transmission that of
\* pins[6].  For a build made after another with no reset between them the
\* shift is positive and no column k denotes pins[k].
C12_ColumnsAfterReset ==
    \A j \in DOMAIN builds :
        LET s == builds[j] IN
        /\ \A k \in 0..(NumPins(s.type) - 1) : s.pins[k + 1].id = k + Shift(j)
        /\ (j = 1 \/ afterReset[j]) =>
              /\ ColumnsDenotePins(j)
              /\ \A i \in DOMAIN builds : (i = 1 \/ afterReset[i]) =>
                    Column(builds[i].pins[AppPin + 1]) = Column(s.pins[AppPin + 1])
              /\ (s.type = "AddDropFilter" /\ observed[j].fields.status = "solved") =>
                    /\ Column(s.pins[4]) = FieldEnhancementColumn + 1
                    /\ \A f \in Samples :
                          Transmission(observed[j].fields.array)[f]
                             = AbsSquared(observed[j].fields.array[f][Column(s.pins[7])])
        /\ (j > 1 /\ ~afterReset[j]) =>
              /\ Shift(j) > 0
              /\ \A k \in 0..(NumPins(s.type) - 1) : Column(s.pins[k + 1]) # k + 1

\* A solved AddDropFilter built right after a reset, then a RingResonator
\* built with no reset, read.
C12_Witness ==
    /\ Len(builds) = 2
    /\ afterReset[1] /\ ~afterReset[2]
    /\ builds[1].type = "AddDropFilter"
    /\ observed[1].fields.status = "solved"
    /\ builds[2].type = "RingResonator"
    /\ observed[2].read

====
